---- MODULE Spec2Model ----
(***************************************************************************)
(* structsync: synchronisation of Go struct declarations from an upstream  *)
(* source file into a target (SDK) file.                                   *)
(*                                                                         *)
(* Go strings are modelled as sequences of tokens; every token stands for  *)
(* an indivisible run of bytes ("json", ":", " ", ...), chosen so that the *)
(* byte-level tests of the code (prefix, substring, trimming, scanning to  *)
(* a colon or a quote) coincide with the same tests on token boundaries.   *)
(* A dst.Expr is a record tagged by its node kind k; a dst.Field is a      *)
(* record [Names, Type, Tag, Start, Before].  A parsed file is the list of *)
(* fields of each struct declaration it holds (the decorated tree that     *)
(* decorator.ParseFile returns and decorator.Restorer prints).             *)
(***************************************************************************)
EXTENDS Naturals, Sequences, FiniteSets, TLC

VARIABLES
    cfg,          \* Syncer fields and Config: Structs, Transform, SourcePaths, DryRun, ShowDiff, MarkDeprecated, PruneDeprecated, StructFilter
    sources,      \* upstream checkouts: source name -> file name -> file
    targets,      \* files of Config.Target: file name -> file
    pc,           \* position of Syncer.Run: "running", "done"; of the pipeline: "start", "transformed", "diffed", "built"
    idx,          \* index into Config.Structs of the next declaration of Run's loop
    runs,         \* ordinal of this run of the tool
    stats,        \* Syncer.stats (SummaryStats)
    called,       \* declarations for which syncStruct has been called in this run, in call order
    warned,       \* stderr of this run: the declarations of the "Warning:" lines
    ret,          \* what Run returned: "none" while running, "nil" or the error
    last,         \* the last syncStruct call of this run: declaration, error, whether it computed a diff, HasChanges, whether it wrote
    rewritten,    \* the "Updated ... in ..." lines of all runs: run, declaration, the fields written
    processed,    \* the declarations syncStruct processed without error in this run, with the counts of their fields
    summary,      \* stdout of this run: the summary Run printed, or NoSummary
    input,        \* the pipeline's inputs: upstream fields, target fields, TransformOpts, MergeOptions
    transformed,  \* result of TransformStruct
    diff,         \* result of ComputeDiff
    built         \* result of BuildFieldsFromTransform (list of dst.Field)

vars == <<cfg, sources, targets, pc, idx, runs, stats, called, warned, ret, last,
          rewritten, processed, summary, input, transformed, diff, built>>

----------------------------------------------------------------------------
(* Strings (package strings), on token sequences *)

\* the token of the back quote that delimits a raw string literal
BQ == "<backquote>"

HasPrefix(s, p) == Len(p) <= Len(s) /\ SubSeq(s, 1, Len(p)) = p

TrimPrefix(s, p) == IF HasPrefix(s, p) THEN SubSeq(s, Len(p) + 1, Len(s)) ELSE s

\* strings.Index: the 0-based index of the first occurrence of sub in s, -1
\* (here: Len(s), "none") when absent; IndexOf returns the 1-based index or 0.
IndexOf(s, sub) ==
    LET hits == {i \in 1..Len(s) : i + Len(sub) - 1 <= Len(s)
                                   /\ SubSeq(s, i, i + Len(sub) - 1) = sub}
    IN IF hits = {} THEN 0 ELSE CHOOSE i \in hits : \A j \in hits : i <= j

Contains(s, sub) == IndexOf(s, sub) # 0

\* strings.TrimLeft / TrimRight / Trim with a one-byte cutset
TrimLeft(s, c) ==
    LET keep == {i \in 1..Len(s) : s[i] # c}
    IN IF keep = {} THEN <<>>
       ELSE SubSeq(s, CHOOSE i \in keep : \A j \in keep : i <= j, Len(s))

TrimRight(s, c) ==
    LET keep == {i \in 1..Len(s) : s[i] # c}
    IN IF keep = {} THEN <<>>
       ELSE SubSeq(s, 1, CHOOSE i \in keep : \A j \in keep : i >= j)

Trim(s, c) == TrimRight(TrimLeft(s, c), c)

\* strings.TrimSpace: the white space of the model is the blank and the tab
IsSpace(t) == t \in {" ", "\t"}

TrimSpace(s) ==
    LET keep == {i \in 1..Len(s) : ~IsSpace(s[i])}
    IN IF keep = {} THEN <<>>
       ELSE SubSeq(s, CHOOSE i \in keep : \A j \in keep : i <= j,
                      CHOOSE i \in keep : \A j \in keep : i >= j)

\* strings.Split(s, sep) for a one-token separator
RECURSIVE Split(_, _)
Split(s, sep) ==
    LET i == IndexOf(s, <<sep>>)
    IN IF i = 0 THEN <<s>>
       ELSE <<SubSeq(s, 1, i - 1)>> \o Split(SubSeq(s, i + 1, Len(s)), sep)

\* strings.Join
RECURSIVE Join(_, _)
Join(ss, sep) ==
    IF ss = <<>> THEN <<>>
    ELSE IF Len(ss) = 1 THEN ss[1]
    ELSE ss[1] \o sep \o Join(Tail(ss), sep)

----------------------------------------------------------------------------
(* Type expressions (dst.Expr) *)

Ident(name)        == [k |-> "Ident", Name |-> name]
StarExpr(x)        == [k |-> "StarExpr", X |-> x]
SelectorExpr(x, s) == [k |-> "SelectorExpr", X |-> x, Sel |-> s]
ArrayType(len, e)  == [k |-> "ArrayType", Len |-> len, Elt |-> e]
MapType(key, v)    == [k |-> "MapType", Key |-> key, Value |-> v]
InterfaceType(ms)  == [k |-> "InterfaceType", Methods |-> ms]
StructType(fs)     == [k |-> "StructType", Fields |-> fs]
FuncType           == [k |-> "FuncType"]

\* ArrayType.Len of a slice
NilLen == "nil"

RECURSIVE exprToString(_)
exprToString(e) ==
    CASE e.k = "Ident"         -> e.Name
      [] e.k = "StarExpr"      -> <<"*">> \o exprToString(e.X)
      [] e.k = "SelectorExpr"  -> exprToString(e.X) \o <<".">> \o e.Sel
      [] e.k = "ArrayType"     -> IF e.Len = NilLen
                                  THEN <<"[]">> \o exprToString(e.Elt)
                                  ELSE <<"[...]">> \o exprToString(e.Elt)
      [] e.k = "MapType"       -> <<"map[">> \o exprToString(e.Key) \o <<"]">>
                                      \o exprToString(e.Value)
      [] e.k = "InterfaceType" -> <<"interface{}">>
      [] e.k = "StructType"    -> <<"struct{}">>
      [] OTHER                 -> <<"*dst.", e.k>>

RECURSIVE cloneExpr(_)
cloneExpr(e) ==
    CASE e.k = "Ident"         -> Ident(e.Name)
      [] e.k = "StarExpr"      -> StarExpr(cloneExpr(e.X))
      [] e.k = "SelectorExpr"  -> SelectorExpr(cloneExpr(e.X), e.Sel)
      [] e.k = "ArrayType"     -> ArrayType(e.Len, cloneExpr(e.Elt))
      [] e.k = "MapType"       -> MapType(cloneExpr(e.Key), cloneExpr(e.Value))
      [] e.k = "InterfaceType" -> InterfaceType(<<>>)
      [] e.k = "StructType"    -> StructType(<<>>)
      [] OTHER                 -> e

----------------------------------------------------------------------------
(* Fields *)

\* a dst.Field: Tag is the literal's Value, <<>> when Tag is nil
DstField(names, type, tag, start, before) ==
    [Names |-> names, Type |-> type, Tag |-> tag, Start |-> start, Before |-> before]

ParsedField(name, type, typeExpr, tags, comments, isEmbedded) ==
    [Name |-> name, Type |-> type, TypeExpr |-> typeExpr, Tags |-> tags,
     Comments |-> comments, IsEmbedded |-> isEmbedded]

extractField(field) ==
    LET tagValue == field.Tag
        comments == field.Start
        typeStr  == exprToString(field.Type)
    IN IF Len(field.Names) = 0
       THEN <<ParsedField(typeStr, typeStr, field.Type, tagValue, comments, TRUE)>>
       ELSE [i \in 1..Len(field.Names) |->
                ParsedField(field.Names[i], typeStr, field.Type, tagValue, comments, FALSE)]

\* the field loop of ExtractStruct: the fields of the struct's field list, fanned out
RECURSIVE ExtractFields(_)
ExtractFields(list) ==
    IF list = <<>> THEN <<>>
    ELSE extractField(Head(list)) \o ExtractFields(Tail(list))

----------------------------------------------------------------------------
(* Struct tags (github.com/fatih/structtag), as transform.go uses them *)

Tag(key, name, options) == [Key |-> key, Name |-> name, Options |-> options]

\* number of leading tokens of a key: up to a space, a colon or a quote
KeyEnd(t) ==
    LET stop == {i \in 1..Len(t) : t[i] \in {" ", ":", "\""}}
    IN IF stop = {} THEN Len(t) ELSE (CHOOSE i \in stop : \A j \in stop : i <= j) - 1

\* position of the closing quote of the quoted string that starts at t[1],
\* scanning from position i; Len(t) + 1 when there is none
RECURSIVE QuoteEnd(_, _)
QuoteEnd(t, i) ==
    IF i > Len(t) THEN Len(t) + 1
    ELSE IF t[i] = "\"" THEN i
    ELSE IF t[i] = "\\" THEN QuoteEnd(t, i + 2)
    ELSE QuoteEnd(t, i + 1)

TagSyntaxError == [err |-> TRUE, tags |-> <<>>]

\* structtag.Parse: the loop over key:"value" pairs
RECURSIVE ParseLoop(_, _)
ParseLoop(tag, acc) ==
    LET t == TrimLeft(tag, " ")
        i == KeyEnd(t)
    IN IF t = <<>> THEN [err |-> FALSE, tags |-> acc]
       ELSE IF i = 0 THEN TagSyntaxError
       ELSE IF i + 1 >= Len(t) \/ t[i + 1] # ":" THEN TagSyntaxError
       ELSE IF t[i + 2] # "\"" THEN TagSyntaxError
       ELSE LET key  == SubSeq(t, 1, i)
                rest == SubSeq(t, i + 2, Len(t))
                j    == QuoteEnd(rest, 2)
            IN IF j > Len(rest) THEN TagSyntaxError
               ELSE LET value == SubSeq(rest, 2, j - 1)
                        res   == Split(value, ",")
                    IN ParseLoop(SubSeq(rest, j + 1, Len(rest)),
                                 Append(acc, Tag(key, res[1], Tail(res))))

Parse(tag) == ParseLoop(tag, <<>>)

\* Tags.Get: the first tag of that key
TagsHas(tags, key) == \E i \in 1..Len(tags) : tags[i].Key = key

TagsGet(tags, key) ==
    tags[CHOOSE i \in 1..Len(tags) :
            tags[i].Key = key /\ \A j \in 1..Len(tags) : tags[j].Key = key => i <= j]

\* Tags.Set: replaces the tags of that key, appends when there is none
TagsSet(tags, tag) ==
    IF TagsHas(tags, tag.Key)
    THEN [i \in 1..Len(tags) |-> IF tags[i].Key = tag.Key THEN tag ELSE tags[i]]
    ELSE Append(tags, tag)

\* Tag.Value and Tag.String: key:"name,options"
TagValue(tag) ==
    LET options == Join(tag.Options, <<",">>)
    IN IF options # <<>> THEN tag.Name \o <<",">> \o options ELSE tag.Name

TagString(tag) == tag.Key \o <<":", "\"">> \o TagValue(tag) \o <<"\"">>

\* Tags.String
TagsString(tags) == Join([i \in 1..Len(tags) |-> TagString(tags[i])], <<" ">>)

----------------------------------------------------------------------------
(* transform.go *)

SetOf(seq) == {seq[i] : i \in 1..Len(seq)}

\* a rebuilt tag list: every remaining tag Set in turn
RECURSIVE SetAll(_, _)
SetAll(newTags, remaining) ==
    IF remaining = <<>> THEN newTags
    ELSE SetAll(TagsSet(newTags, Head(remaining)), Tail(remaining))

\* Remaining with the kept tags prepended instead of appended
RECURSIVE RemainingPrepended(_, _)
RemainingPrepended(tags, removeSet) ==
    IF tags = <<>> THEN <<>>
    ELSE IF Head(tags).Key \in removeSet THEN RemainingPrepended(Tail(tags), removeSet)
    ELSE RemainingPrepended(Tail(tags), removeSet) \o <<Head(tags)>>

\* the tags that the loop of transformTags keeps, in order
RECURSIVE Remaining(_, _)
Remaining(tags, removeSet) ==
    IF tags = <<>> THEN <<>>
    ELSE IF Head(tags).Key \in removeSet THEN Remaining(Tail(tags), removeSet)
    ELSE <<Head(tags)>> \o Remaining(Tail(tags), removeSet)

shouldExcludeField(tagStr) ==
    LET s == Trim(tagStr, BQ)
        p == Parse(s)
    IN IF tagStr = <<>> \/ s = <<>> \/ p.err THEN FALSE
       ELSE LET xormDash == TagsHas(p.tags, <<"xorm">>)
                               /\ TagsGet(p.tags, <<"xorm">>).Name = <<"-">>
                jsonDash == TagsHas(p.tags, <<"json">>)
                               /\ TagsGet(p.tags, <<"json">>).Name = <<"-">>
            IN xormDash /\ jsonDash

\* returns the new tag string and whether a tag was removed
transformTags(tagStr, removeSet) ==
    LET s == Trim(tagStr, BQ)
        p == Parse(s)
        modified  == \E i \in 1..Len(p.tags) : p.tags[i].Key \in removeSet
        remaining == Remaining(p.tags, removeSet)
    IN IF tagStr = <<>> \/ s = <<>> THEN [tags |-> <<>>, modified |-> FALSE]
       ELSE IF p.err THEN [tags |-> <<BQ>> \o s \o <<BQ>>, modified |-> FALSE]
       ELSE IF ~modified THEN [tags |-> <<BQ>> \o s \o <<BQ>>, modified |-> FALSE]
       ELSE IF Len(remaining) = 0 THEN [tags |-> <<>>, modified |-> TRUE]
       ELSE [tags |-> <<BQ>> \o TagsString(SetAll(<<>>, remaining)) \o <<BQ>>,
             modified |-> TRUE]

TransformedField(field, newTags, newType, shouldExclude) ==
    [Name |-> field.Name, Type |-> field.Type, TypeExpr |-> field.TypeExpr,
     Tags |-> field.Tags, Comments |-> field.Comments, IsEmbedded |-> field.IsEmbedded,
     NewTags |-> newTags, NewType |-> newType, ShouldExclude |-> shouldExclude]

TransformResult(fields, excluded, modified) ==
    [Fields |-> fields, ExcludedFields |-> excluded, ModifiedTags |-> modified]

\* TransformField with the type mapping applied until no key matches
RECURSIVE MapTypeTransitively(_, _, _)
MapTypeTransitively(type, mappings, fuel) ==
    IF fuel = 0 \/ type \notin DOMAIN mappings THEN type
    ELSE MapTypeTransitively(mappings[type], mappings, fuel - 1)

TransformFieldCascading(result, field, opts) ==
    LET newType == MapTypeTransitively(field.Type, opts.TypeMappings,
                                       Cardinality(DOMAIN opts.TypeMappings))
        tt == transformTags(field.Tags, SetOf(opts.RemoveTags))
    IN IF field.IsEmbedded /\ field.Type \in SetOf(opts.ExcludeEmbedded)
       THEN [result EXCEPT !.ExcludedFields = Append(@, field.Type)]
       ELSE IF shouldExcludeField(field.Tags)
       THEN [result EXCEPT !.ExcludedFields = Append(@, field.Name)]
       ELSE [result EXCEPT
                !.Fields = Append(@, TransformedField(field,
                                        IF tt.modified THEN tt.tags ELSE field.Tags,
                                        newType, FALSE)),
                !.ModifiedTags = @ + (IF tt.modified THEN 1 ELSE 0)]

\* one iteration of the loop of TransformStruct
TransformField(result, field, opts) ==
    LET excludeEmbeddedSet == SetOf(opts.ExcludeEmbedded)
        removeSet == SetOf(opts.RemoveTags)
        newType == IF field.Type \in DOMAIN opts.TypeMappings
                   THEN opts.TypeMappings[field.Type] ELSE field.Type
        tt == transformTags(field.Tags, removeSet)
    IN IF field.IsEmbedded /\ field.Type \in excludeEmbeddedSet
       THEN [result EXCEPT !.ExcludedFields = Append(@, field.Type)]
       ELSE IF shouldExcludeField(field.Tags)
       THEN [result EXCEPT !.ExcludedFields = Append(@, field.Name)]
       ELSE IF tt.modified
       THEN [result EXCEPT !.Fields = Append(@, TransformedField(field, tt.tags, newType, FALSE)),
                           !.ModifiedTags = @ + 1]
       ELSE [result EXCEPT !.Fields = Append(@, TransformedField(field, field.Tags, newType, FALSE))]

\* TransformLoop taking the fields from the last to the first
RECURSIVE TransformLoopBackwards(_, _, _)
TransformLoopBackwards(result, fields, opts) ==
    IF fields = <<>> THEN result
    ELSE TransformLoopBackwards(TransformField(result, fields[Len(fields)], opts),
                                SubSeq(fields, 1, Len(fields) - 1), opts)

RECURSIVE TransformLoop(_, _, _)
TransformLoop(result, fields, opts) ==
    IF fields = <<>> THEN result
    ELSE TransformLoop(TransformField(result, Head(fields), opts), Tail(fields), opts)

\* ps: the Fields of the ParsedStruct
TransformStruct(ps, opts) == TransformLoop(TransformResult(<<>>, <<>>, 0), ps, opts)

----------------------------------------------------------------------------
(* diff.go *)

DiffLine(type, content) == [Type |-> type, Content |-> content]

fieldKey(f) ==
    IF f.IsEmbedded THEN <<"embedded:">> \o f.Type ELSE <<"field:">> \o f.Name

tfieldKey(f) ==
    IF f.IsEmbedded THEN <<"embedded:">> \o f.Type ELSE <<"field:">> \o f.Name

\* a Go map filled by "for _, f := range fields { m[key(f)] = f }":
\* its key set, and the field stored under a key (the last one of that key)
MapKeys(keys) == {keys[i] : i \in 1..Len(keys)}

MapGet(fields, keys, k) ==
    fields[CHOOSE i \in 1..Len(fields) :
              keys[i] = k /\ \A j \in 1..Len(fields) : keys[j] = k => j <= i]

\* the keys of a list of target fields, and of a list of transformed fields
fieldKeys(fields)  == [i \in 1..Len(fields) |-> fieldKey(fields[i])]
tfieldKeys(fields) == [i \in 1..Len(fields) |-> tfieldKey(fields[i])]

formatField(f) ==
    <<"\t">> \o (IF f.IsEmbedded THEN f.Type ELSE f.Name \o <<" ">> \o f.Type)
             \o (IF f.Tags # <<>> THEN <<" ">> \o f.Tags ELSE <<>>)

formatTransformedField(f) ==
    LET fieldType == IF f.NewType # <<>> THEN f.NewType ELSE f.Type
    IN <<"\t">> \o (IF f.IsEmbedded THEN fieldType ELSE f.Name \o <<" ">> \o fieldType)
                \o (IF f.NewTags # <<>> THEN <<" ">> \o f.NewTags ELSE <<>>)

\* isFieldCommented without the test for a qualifier dot
isFieldCommentedStarOnly(f) ==
    \E i \in 1..Len(f.Comments) :
        LET c == TrimSpace(f.Comments[i])
        IN HasPrefix(c, <<"//">>)
           /\ HasPrefix(TrimSpace(TrimPrefix(c, <<"//">>)), <<"*">>)

isFieldCommented(f) ==
    \E i \in 1..Len(f.Comments) :
        LET c == TrimSpace(f.Comments[i])
            content == TrimSpace(TrimPrefix(c, <<"//">>))
        IN HasPrefix(c, <<"//">>)
           /\ (HasPrefix(content, <<"*">>) \/ Contains(content, <<".">>))

\* DiffSourceField where a field absent from the target adds its line and leaves
\* HasChanges as it was
DiffSourceFieldQuietAdd(result, sf, targetFields) ==
    LET key == tfieldKey(sf)
        oldLine == formatField(MapGet(targetFields, fieldKeys(targetFields), key))
        newLine == formatTransformedField(sf)
    IN IF sf.ShouldExclude THEN result
       ELSE IF key \in MapKeys(fieldKeys(targetFields))
       THEN IF oldLine # newLine
            THEN [result EXCEPT !.HasChanges = TRUE,
                                !.Lines = @ \o <<DiffLine("DiffRemoved", oldLine),
                                                 DiffLine("DiffAdded", newLine)>>]
            ELSE [result EXCEPT !.Lines = Append(@, DiffLine("DiffUnchanged", newLine))]
       ELSE [result EXCEPT !.Lines = Append(@, DiffLine("DiffAdded", newLine))]

\* one iteration of "for _, sf := range transformed.Fields"
DiffSourceField(result, sf, targetFields) ==
    LET key == tfieldKey(sf)
        oldLine == formatField(MapGet(targetFields, fieldKeys(targetFields), key))
        newLine == formatTransformedField(sf)
    IN IF sf.ShouldExclude THEN result
       ELSE IF key \in MapKeys(fieldKeys(targetFields))
       THEN IF oldLine # newLine
            THEN [result EXCEPT !.HasChanges = TRUE,
                                !.Lines = @ \o <<DiffLine("DiffRemoved", oldLine),
                                                 DiffLine("DiffAdded", newLine)>>]
            ELSE [result EXCEPT !.Lines = Append(@, DiffLine("DiffUnchanged", newLine))]
       ELSE [result EXCEPT !.HasChanges = TRUE,
                           !.Lines = Append(@, DiffLine("DiffAdded", newLine))]

RECURSIVE DiffSourceLoop(_, _, _)
DiffSourceLoop(result, fields, targetFields) ==
    IF fields = <<>> THEN result
    ELSE DiffSourceLoop(DiffSourceField(result, Head(fields), targetFields),
                        Tail(fields), targetFields)

\* DiffTargetField where a removed field adds its line and leaves HasChanges
\* as it was
DiffTargetFieldQuietRemove(result, tf, sourceFields) ==
    IF fieldKey(tf) \notin MapKeys(tfieldKeys(sourceFields))
    THEN IF isFieldCommented(tf) THEN result
         ELSE [result EXCEPT !.Lines = Append(@, DiffLine("DiffRemoved", formatField(tf)))]
    ELSE result

\* one iteration of "for _, tf := range targetStruct.Fields" (removed fields)
DiffTargetField(result, tf, sourceFields) ==
    IF fieldKey(tf) \notin MapKeys(tfieldKeys(sourceFields))
    THEN IF isFieldCommented(tf) THEN result
         ELSE [result EXCEPT !.HasChanges = TRUE,
                             !.Lines = Append(@, DiffLine("DiffRemoved", formatField(tf)))]
    ELSE result

RECURSIVE DiffTargetLoop(_, _, _)
DiffTargetLoop(result, fields, sourceFields) ==
    IF fields = <<>> THEN result
    ELSE DiffTargetLoop(DiffTargetField(result, Head(fields), sourceFields),
                        Tail(fields), sourceFields)

StructHeader(name) == <<"type ", name, " struct {">>

\* ComputeDiff with the removed target fields listed before the source fields
ComputeDiffRemovedFirst(targetStruct, tr) ==
    LET header == [StructName |-> targetStruct.Name, HasChanges |-> FALSE,
                   Lines |-> <<DiffLine("DiffUnchanged", StructHeader(targetStruct.Name))>>]
        r1 == DiffTargetLoop(header, targetStruct.Fields, tr.Fields)
        r2 == DiffSourceLoop(r1, tr.Fields, targetStruct.Fields)
    IN [r2 EXCEPT !.Lines = Append(@, DiffLine("DiffUnchanged", <<"}">>))]

\* targetStruct: [Name, Fields] of the ParsedStruct
ComputeDiff(targetStruct, tr) ==
    LET header == [StructName |-> targetStruct.Name, HasChanges |-> FALSE,
                   Lines |-> <<DiffLine("DiffUnchanged", StructHeader(targetStruct.Name))>>]
        r1 == DiffSourceLoop(header, tr.Fields, targetStruct.Fields)
        r2 == DiffTargetLoop(r1, targetStruct.Fields, tr.Fields)
    IN [r2 EXCEPT !.Lines = Append(@, DiffLine("DiffUnchanged", <<"}">>))]

\* the text FormatDiff writes for the lines, each with its marker and a newline
RECURSIVE FormatLines(_)
FormatLines(lines) ==
    IF lines = <<>> THEN <<>>
    ELSE (CASE Head(lines).Type = "DiffUnchanged" -> <<" ">> \o Head(lines).Content \o <<"\n">>
            [] Head(lines).Type = "DiffAdded"     -> <<"+">> \o Head(lines).Content \o <<"\n">>
            [] Head(lines).Type = "DiffRemoved"   -> <<"-">> \o Head(lines).Content \o <<"\n">>
            [] OTHER                              -> <<>>)
         \o FormatLines(Tail(lines))

\* FormatDiff: the empty string without changes, else the unified diff
FormatDiff(d, targetPath) ==
    IF ~d.HasChanges THEN <<>>
    ELSE <<"--- a/", targetPath, "\n", "+++ b/", targetPath, "\n",
           "@@ struct ", d.StructName, " @@", "\n">> \o FormatLines(d.Lines)

----------------------------------------------------------------------------
(* writer.go *)

NilExpr == [k |-> "nil"]

\* the key of BuildFieldsFromTransform's maps
buildKey(f) == IF f.IsEmbedded THEN f.Type ELSE f.Name

buildField(tf) ==
    DstField(IF ~tf.IsEmbedded THEN <<tf.Name>> ELSE <<>>,
             IF tf.NewType # <<>> /\ tf.NewType # tf.Type
                THEN Ident(tf.NewType) ELSE cloneExpr(tf.TypeExpr),
             tf.NewTags,
             tf.Comments,
             "None")

\* the position just after the closing quote of the value that starts at
\* result[e] (1-based), as the depth loop of transformTagsHelper finds it
RECURSIVE ValueEnd(_, _)
ValueEnd(result, e) ==
    IF e > Len(result) THEN e
    ELSE IF result[e] = "\"" /\ (e = 1 \/ result[e - 1] # "\\") THEN e + 1
    ELSE ValueEnd(result, e + 1)

\* the inner "for" of transformTagsHelper: removes every key:"value" of one key
RECURSIVE RemoveKey(_, _)
RemoveKey(result, key) ==
    LET start  == IndexOf(result, key \o <<":", "\"">>)
        end    == ValueEnd(result, start + Len(key) + 2)
        prefix == TrimRight(SubSeq(result, 1, start - 1), " ")
        suffix == TrimLeft(SubSeq(result, end, Len(result)), " ")
    IN IF start = 0 THEN result
       ELSE RemoveKey(prefix \o (IF prefix # <<>> /\ suffix # <<>> THEN <<" ">> ELSE <<>>)
                             \o suffix, key)

\* "for key := range removeSet": the keys in the order of the configured list
\* (the map holds one key in every configuration of the model)
RECURSIVE RemoveKeys(_, _)
RemoveKeys(result, keys) ==
    IF keys = <<>> THEN result
    ELSE RemoveKeys(RemoveKey(result, Head(keys)), Tail(keys))

transformTagsHelper(tagStr, removeKeys) ==
    LET s == Trim(tagStr, BQ)
        result == TrimSpace(RemoveKeys(s, removeKeys))
    IN IF tagStr = <<>> \/ s = <<>> THEN [tags |-> <<>>, modified |-> FALSE]
       ELSE IF result = <<>> THEN [tags |-> <<>>, modified |-> TRUE]
       ELSE [tags |-> <<BQ>> \o result \o <<BQ>>, modified |-> TRUE]

DefaultDeprecationMessage == <<"removed from server">>

DeprecationComment(message) == <<"//", " ", "Deprecated:", " ">> \o message

buildDeprecatedField(pf, message, removeTagKeys) ==
    DstField(IF ~pf.IsEmbedded THEN <<pf.Name>> ELSE <<>>,
             IF pf.TypeExpr # NilExpr THEN cloneExpr(pf.TypeExpr) ELSE Ident(pf.Type),
             IF pf.Tags # <<>> THEN transformTagsHelper(pf.Tags, removeTagKeys).tags ELSE <<>>,
             <<DeprecationComment(IF message = <<>> THEN DefaultDeprecationMessage
                                  ELSE message)>>,
             "NewLine")

MergeOptions(markDeprecated, message, pruneDeprecated, removeTags) ==
    [MarkDeprecated |-> markDeprecated, DeprecationMessage |-> message,
     PruneDeprecated |-> pruneDeprecated, RemoveTags |-> removeTags]

\* "Add transformed fields in order"
RECURSIVE BuildSourceLoop(_)
BuildSourceLoop(fields) ==
    IF fields = <<>> THEN <<>>
    ELSE (IF Head(fields).ShouldExclude THEN <<>> ELSE <<buildField(Head(fields))>>)
         \o BuildSourceLoop(Tail(fields))

\* BuildTargetLoop that keeps the stub whatever MarkDeprecated says
RECURSIVE BuildTargetLoopAlwaysMarks(_, _, _)
BuildTargetLoopAlwaysMarks(existing, transformedFields, opts) ==
    IF existing = <<>> THEN <<>>
    ELSE (IF buildKey(Head(existing)) \notin MapKeys([i \in 1..Len(transformedFields) |-> buildKey(transformedFields[i])])
          THEN <<buildDeprecatedField(Head(existing), opts.DeprecationMessage,
                                      opts.RemoveTags)>>
          ELSE <<>>)
         \o BuildTargetLoopAlwaysMarks(Tail(existing), transformedFields, opts)

\* BuildTargetLoop where PruneDeprecated drops the target fields that carry a
\* "// Deprecated:" comment already
RECURSIVE BuildTargetLoopPruning(_, _, _)
BuildTargetLoopPruning(existing, transformedFields, opts) ==
    IF existing = <<>> THEN <<>>
    ELSE (IF buildKey(Head(existing)) \notin MapKeys([i \in 1..Len(transformedFields) |-> buildKey(transformedFields[i])])
             /\ opts.MarkDeprecated
             /\ ~(opts.PruneDeprecated
                  /\ \E c \in 1..Len(Head(existing).Comments) :
                        HasPrefix(Head(existing).Comments[c], <<"//", " ", "Deprecated:">>))
          THEN <<buildDeprecatedField(Head(existing), opts.DeprecationMessage,
                                      opts.RemoveTags)>>
          ELSE <<>>)
         \o BuildTargetLoopPruning(Tail(existing), transformedFields, opts)

\* "Handle fields that exist in target but not in source"
RECURSIVE BuildTargetLoop(_, _, _)
BuildTargetLoop(existing, transformedFields, opts) ==
    IF existing = <<>> THEN <<>>
    ELSE (IF buildKey(Head(existing)) \notin MapKeys([i \in 1..Len(transformedFields) |-> buildKey(transformedFields[i])])
             /\ opts.MarkDeprecated
          THEN <<buildDeprecatedField(Head(existing), opts.DeprecationMessage,
                                      opts.RemoveTags)>>
          ELSE <<>>)
         \o BuildTargetLoop(Tail(existing), transformedFields, opts)

\* BuildFieldsFromTransform with the loop over the target fields run first
BuildFieldsStubsFirst(tr, existingFields, opts) ==
    BuildTargetLoop(existingFields, tr.Fields, opts) \o BuildSourceLoop(tr.Fields)

\* BuildResult.Fields
BuildFieldsFromTransform(tr, existingFields, opts) ==
    BuildSourceLoop(tr.Fields) \o BuildTargetLoop(existingFields, tr.Fields, opts)

----------------------------------------------------------------------------
(* Files: parser.go, and UpdateStructInFile / WriteFile of writer.go *)

\* a type declaration of a file: a struct type with its field list, or another type
StructDecl(list) == [IsStruct |-> TRUE, List |-> list]
OtherDecl        == [IsStruct |-> FALSE, List |-> <<>>]

\* a file on disk: whether ParseFile can read and parse it, its type declarations,
\* and whether its bytes are laid out as go/format lays them out (indentation,
\* alignment of the columns of a field list)
File(readable, decls) == [Readable |-> readable, Decls |-> decls, Formatted |-> TRUE]

NoFile == File(FALSE, <<>>)

\* the same declarations in a layout of the author's own
HandFormatted(f) == [f EXCEPT !.Formatted = FALSE]

\* ParsedFile.File: the decorated tree keeps the declarations with their comments
\* and line breaks, and nothing of the horizontal layout of the bytes
Tree(f) == [Decls |-> f.Decls]

\* decorator.NewRestorer().Fprint: the tree printed through go/format
Fprint(pf) == File(TRUE, pf.Decls)

\* ExtractStruct: "" or the error, and the ParsedStruct
ExtractStruct(pf, name) ==
    IF name \notin DOMAIN pf.Decls
    THEN [err |-> "not found", Name |-> name, Fields |-> <<>>]
    ELSE IF ~pf.Decls[name].IsStruct
    THEN [err |-> "not a struct type", Name |-> name, Fields |-> <<>>]
    ELSE [err |-> "", Name |-> name, Fields |-> ExtractFields(pf.Decls[name].List)]

\* UpdateStructInFile: "" or the error, and the updated tree
UpdateStructInFile(pf, structName, buildResult) ==
    IF structName \notin DOMAIN pf.Decls
    THEN [err |-> "not found", File |-> pf]
    ELSE IF ~pf.Decls[structName].IsStruct
    THEN [err |-> "not a struct type", File |-> pf]
    ELSE [err |-> "", File |-> [pf EXCEPT !.Decls[structName].List = buildResult]]

----------------------------------------------------------------------------
(* The inputs of the model: types, tags, comments, fields, configurations *)

TString          == Ident(<<"string">>)
TPaymentState    == SelectorExpr(Ident(<<"pp">>), <<"PaymentState">>)
TPtrPaymentState == StarExpr(TPaymentState)
TAdapter         == StarExpr(SelectorExpr(Ident(<<"xormadapter">>), <<"Adapter">>))
\* an inline interface type with one method
THooks           == InterfaceType(<<<<"Run", "()">>>>)

\* a raw string literal holding the key:"value" pairs, one blank between two
Pair(key, value) == <<key, ":", "\"", value, "\"">>
RawTag(pairs)    == <<BQ>> \o Join(pairs, <<" ">>) \o <<BQ>>

NoTag         == <<>>
NoComments    == <<>>
StarComment   == <<"//", " ", "*", "old", ".", "Type">>
DotComment    == <<"//", " ", "old", ".", "Type">>
LegacyComment == <<"//", " ", "legacy field">>
NoteComment   == <<"//", " ", "display name">>
\* the comment of a stub that an earlier run of the tool wrote
DeprecatedComment == <<"//", " ", "Deprecated:", " ", "removed from server">>

\* fields of upstream struct declarations
SrcName   == DstField(<<<<"Name">>>>, TString, RawTag(<<Pair("json", "name")>>),
                      <<NoteComment>>, "NewLine")
SrcState  == DstField(<<<<"State">>>>, TPaymentState,
                      RawTag(<<Pair("json", "state"), Pair("xorm", "int"),
                               Pair("yaml", "state")>>),
                      NoComments, "None")
SrcOwner  == DstField(<<<<"Owner">>>>, TString, RawTag(<<Pair("xorm", "pk")>>),
                      NoComments, "None")
SrcStatus == DstField(<<<<"Status">>>>, TPtrPaymentState,
                      <<BQ, "json", ":", "status", BQ>>, NoComments, "None")
SrcEmbed  == DstField(<<>>, TAdapter, NoTag, NoComments, "None")
SrcSecret == DstField(<<<<"Secret">>>>, TString,
                      RawTag(<<Pair("xorm", "-"), Pair("json", "-")>>),
                      NoComments, "None")

SrcHooks  == DstField(<<<<"Hooks">>>>, THooks, NoTag, NoComments, "None")
SrcTimes  == DstField(<<<<"Times">>>>, ArrayType(<<"4">>, TString), NoTag, NoComments, "None")

SrcNodes == {SrcName, SrcState, SrcOwner, SrcStatus, SrcEmbed, SrcSecret, SrcHooks}

\* fields of target struct declarations
TgtName   == DstField(<<<<"Name">>>>, TString, RawTag(<<Pair("json", "name")>>),
                      NoComments, "None")
TgtState  == DstField(<<<<"State">>>>, TPaymentState, RawTag(<<Pair("json", "state")>>),
                      NoComments, "None")
TgtFoo    == DstField(<<<<"Foo">>>>, TString, NoTag, <<LegacyComment>>, "NewLine")
TgtBar    == DstField(<<<<"Bar">>>>, TString,
                      RawTag(<<<<"my", "xorm", ":", "\"", "bar", "\"">>,
                               Pair("xorm", "bar"), Pair("json", "bar")>>),
                      <<StarComment>>, "NewLine")
TgtBaz    == DstField(<<<<"Baz">>>>, TString, NoTag, <<DotComment>>, "NewLine")
TgtEmbed  == DstField(<<>>, TAdapter, RawTag(<<Pair("xorm", "-")>>), NoComments, "None")
TgtSecret == DstField(<<<<"Secret">>>>, TString, RawTag(<<Pair("json", "-")>>),
                      <<DeprecatedComment>>, "NewLine")

\* an embedded field whose type is the name of the upstream field Owner, and
\* an array field whose length differs from the upstream field Times
TgtOwner  == DstField(<<>>, Ident(<<"Owner">>), NoTag, NoComments, "None")
TgtTimes  == DstField(<<<<"Times">>>>, ArrayType(<<"8">>, TString), NoTag, NoComments, "None")

TgtNodes == {TgtName, TgtState, TgtFoo, TgtBar, TgtBaz, TgtEmbed, TgtSecret}

MaxSrcFields == 3
MaxTgtFields == 2
MaxFields    == 4

\* the field lists of at most n fields in which no identity key occurs twice
FieldLists(nodes, n) ==
    {l \in UNION {[1..m -> nodes] : m \in 0..n} :
        \A i, j \in 1..Len(l) :
            i # j => fieldKey(extractField(l[i])[1]) # fieldKey(extractField(l[j])[1])}

\* the lists of the fields above, and the declarations with the fields Owner
\* and Times
SrcLists == FieldLists(SrcNodes, MaxSrcFields) \cup {<<SrcTimes>>, <<SrcName, SrcTimes>>}
TgtLists == FieldLists(TgtNodes, MaxTgtFields)
                \cup {<<TgtOwner>>, <<TgtName, TgtOwner>>, <<TgtTimes>>, <<TgtName, TgtTimes>>}

TransformOpts(removeTags, excludeEmbedded, typeMappings) ==
    [RemoveTags |-> removeTags, ExcludeEmbedded |-> excludeEmbedded,
     TypeMappings |-> typeMappings]

\* Config.Transform: the configuration of README.md, and one that strips and
\* excludes nothing and maps a type onto a type that is itself mapped
ReadmeTransform ==
    TransformOpts(<<<<"xorm">>>>, <<exprToString(TAdapter)>>,
                  (exprToString(TPaymentState) :> <<"string">>))

CascadeTransform ==
    TransformOpts(<<>>, <<>>,
                  (exprToString(TPaymentState) :> <<"string">>)
                      @@ (<<"string">> :> <<"text">>))

NoTransformResult == TransformResult(<<>>, <<>>, 0)
NoDiff            == [StructName |-> "", HasChanges |-> FALSE, Lines |-> <<>>]
NoCall            == [Name |-> "", Err |-> "", Diffed |-> FALSE, HadChanges |-> FALSE,
                      Wrote |-> FALSE]
NoStats           == [TotalStructs |-> 0, ChangedStructs |-> 0, NewFields |-> 0,
                      RemovedFields |-> 0, ModifiedTags |-> 0, ExcludedFields |-> 0]
NoSummary         == <<>>

----------------------------------------------------------------------------
(* The pipeline of one declaration: TransformStruct, ComputeDiff and         *)
(* BuildFieldsFromTransform applied to every input of the bounded sets       *)

\* Config.Transform with the MergeOptions syncStruct makes of it: the README's
\* configuration without and with mark_deprecated, with no message (the
\* default applies) and with prune_deprecated; the cascading configuration
\* with mark_deprecated
PipelineOptions ==
    { [opts |-> ReadmeTransform,
       mopts |-> MergeOptions(FALSE, DefaultDeprecationMessage, FALSE,
                              ReadmeTransform.RemoveTags)],
      [opts |-> ReadmeTransform,
       mopts |-> MergeOptions(TRUE, <<>>, FALSE, ReadmeTransform.RemoveTags)],
      [opts |-> ReadmeTransform,
       mopts |-> MergeOptions(TRUE, DefaultDeprecationMessage, TRUE,
                              ReadmeTransform.RemoveTags)],
      [opts |-> CascadeTransform,
       mopts |-> MergeOptions(TRUE, DefaultDeprecationMessage, FALSE,
                              CascadeTransform.RemoveTags)] }

InitPipeline ==
    /\ \E s \in SrcLists : \E t \in {l \in TgtLists : Len(s) + Len(l) <= MaxFields} :
       \E o \in PipelineOptions :
          input = [Name |-> "Adapter", src |-> ExtractFields(s), tgt |-> ExtractFields(t),
                   opts |-> o.opts, mopts |-> o.mopts]
    /\ pc = "start"
    /\ transformed = NoTransformResult
    /\ diff = NoDiff
    /\ built = <<>>
    /\ cfg = <<>> /\ sources = <<>> /\ targets = <<>>
    /\ idx = 0 /\ runs = 0 /\ stats = NoStats /\ called = <<>> /\ warned = <<>>
    /\ ret = "none" /\ last = NoCall /\ rewritten = <<>>
    /\ processed = <<>> /\ summary = NoSummary

runVars == <<cfg, sources, targets, idx, runs, stats, called, warned, ret, last, rewritten,
             processed, summary>>

ApplyTransformStruct ==
    /\ pc = "start"
    /\ transformed' = TransformStruct(input.src, input.opts)
    /\ pc' = "transformed"
    /\ UNCHANGED <<input, diff, built, runVars>>

ApplyComputeDiff ==
    /\ pc = "transformed"
    /\ diff' = ComputeDiff([Name |-> input.Name, Fields |-> input.tgt], transformed)
    /\ pc' = "diffed"
    /\ UNCHANGED <<input, transformed, built, runVars>>

ApplyBuildFieldsFromTransform ==
    /\ pc = "diffed"
    /\ built' = BuildFieldsFromTransform(transformed, input.tgt, input.mopts)
    /\ pc' = "built"
    /\ UNCHANGED <<input, transformed, diff, runVars>>

NextPipeline ==
    \/ ApplyTransformStruct
    \/ ApplyComputeDiff
    \/ ApplyBuildFieldsFromTransform

SpecPipeline == InitPipeline /\ [][NextPipeline]_vars

----------------------------------------------------------------------------
(* Syncer.Run over Config.Structs, and the tool started again on the files   *)
(* it left                                                                   *)

StructDef(name, source, file) ==
    [Name |-> name, Source |-> source, File |-> file, IncludeTypes |-> <<>>]

\* os.ReadFile and decorator.ParseFile: "" or the error, and the parsed file
ParseFile(fs, path) ==
    IF path \in DOMAIN fs /\ fs[path].Readable
    THEN [err |-> "", File |-> Tree(fs[path])]
    ELSE [err |-> "reading file", File |-> Tree(NoFile)]

\* os.WriteFile of the printed tree; a failed write leaves the file as it was
WriteFile(fs, path, pf, ok) ==
    IF ok THEN [err |-> "", fs |-> [fs EXCEPT ![path] = Fprint(pf)]]
    ELSE [err |-> "writing file", fs |-> fs]

SyncResult(err, fs, st, tr, d, b, diffed, wrote) ==
    [err |-> err, targets |-> fs, stats |-> st, transformed |-> tr, diff |-> d,
     built |-> b, diffed |-> diffed, wrote |-> wrote]

Failed(err, st) ==
    SyncResult(err, targets, st, NoTransformResult, NoDiff, <<>>, FALSE, FALSE)

ApplyAlways(dryRun, hasChanges) == hasChanges

\* the guard of the apply branch of syncStruct
Apply(dryRun, hasChanges) == ~dryRun /\ hasChanges

\* the MergeOptions syncStruct builds
mergeOpts ==
    MergeOptions(cfg.MarkDeprecated, DefaultDeprecationMessage, cfg.PruneDeprecated,
                 cfg.Transform.RemoveTags)

\* "Handle additional structs": every name of include_types that ExtractStructs
\* found as a struct declaration of the source file and ExtractStruct finds in
\* the target tree gets the build of its transformed upstream fields; the
\* others are skipped (no two names are the same declaration, so the order of
\* the updates does not show)
RECURSIVE UpdateAdditional(_, _, _)
UpdateAdditional(pf, sourceFile, names) ==
    IF names = <<>> THEN pf
    ELSE LET addStruct      == ExtractStruct(sourceFile, Head(names))
             existingStruct == ExtractStruct(pf, Head(names))
             addFields      == BuildFieldsFromTransform(
                                   TransformStruct(addStruct.Fields, cfg.Transform),
                                   existingStruct.Fields, mergeOpts)
         IN UpdateAdditional(
                IF addStruct.err = "" /\ existingStruct.err = ""
                THEN UpdateStructInFile(pf, Head(names), addFields).File
                ELSE pf,
                sourceFile, Tail(names))

\* syncStruct after BuildFieldsFromTransform: UpdateStructInFile, the
\* additional declarations, WriteFile, and the statistics
syncBuilt(def, writeOk, targetFile, tr, d, changed, newFields) ==
    LET updated == UpdateStructInFile(targetFile, def.Name, newFields)
        withAdditional == UpdateAdditional(updated.File,
                                           ParseFile(sources[def.Source], def.File).File,
                                           def.IncludeTypes)
    IN IF updated.err # ""
       THEN SyncResult("updating struct", targets, changed, tr, d, newFields, TRUE, FALSE)
       ELSE IF ~writeOk
       THEN SyncResult("writing file", WriteFile(targets, def.File, withAdditional, FALSE).fs,
                       changed, tr, d, newFields, TRUE, FALSE)
       ELSE SyncResult("", WriteFile(targets, def.File, withAdditional, TRUE).fs,
                       [changed EXCEPT !.ModifiedTags = @ + tr.ModifiedTags],
                       tr, d, newFields, TRUE, TRUE)

\* syncStruct after ComputeDiff: ChangedStructs, the apply branch
syncDiffed(def, writeOk, targetFile, targetFields, tr, d, changed) ==
    IF Apply(cfg.DryRun, d.HasChanges)
    THEN syncBuilt(def, writeOk, targetFile, tr, d, changed,
                   BuildFieldsFromTransform(tr, targetFields, mergeOpts))
    ELSE SyncResult("", targets, [changed EXCEPT !.ModifiedTags = @ + tr.ModifiedTags],
                    tr, d, <<>>, TRUE, FALSE)

\* syncStruct after TransformStruct
syncTransformed(def, writeOk, targetFile, targetFields, tr, d) ==
    syncDiffed(def, writeOk, targetFile, targetFields, tr, d,
               IF d.HasChanges THEN [stats EXCEPT !.ChangedStructs = @ + 1] ELSE stats)

\* syncStruct after parsing and extracting: the errors, TransformStruct, ComputeDiff
syncParsed(def, writeOk, sourceParsed, sourceStruct, targetParsed, targetStruct, tr) ==
    IF sourceParsed.err # "" THEN Failed("parsing source", stats)
    ELSE IF sourceStruct.err # "" THEN Failed("extracting source struct", stats)
    ELSE IF targetParsed.err # "" THEN Failed("parsing target", stats)
    ELSE IF targetStruct.err # "" THEN Failed("extracting target struct", stats)
    ELSE syncTransformed(def, writeOk, targetParsed.File, targetStruct.Fields, tr,
                         ComputeDiff([Name |-> def.Name, Fields |-> targetStruct.Fields], tr))

\* Syncer.syncStruct (source_file is not set in the model); writeOk is
\* whether os.WriteFile succeeds if it is called
syncStruct(def, writeOk) ==
    IF def.Source \notin cfg.SourcePaths
    THEN Failed("source not found in resolved paths", stats)
    ELSE syncParsed(def, writeOk,
                    ParseFile(sources[def.Source], def.File),
                    ExtractStruct(ParseFile(sources[def.Source], def.File).File, def.Name),
                    ParseFile(targets, def.File),
                    ExtractStruct(ParseFile(targets, def.File).File, def.Name),
                    TransformStruct(
                        ExtractStruct(ParseFile(sources[def.Source], def.File).File,
                                      def.Name).Fields,
                        cfg.Transform))

\* the struct filter of Run's loop
Filtered(def) == cfg.StructFilter # "" /\ def.Name # cfg.StructFilter

AbortOnError(err, i, n) ==
    IF err # "" THEN [idx |-> n + 1, ret |-> err] ELSE [idx |-> i + 1, ret |-> "none"]

\* Run's loop after syncStruct returned: warn and continue with the next declaration
Continue(err, i, n) == [idx |-> i + 1, ret |-> "none"]

\* the declarations of the model: two that can be synchronised, one of a
\* source without a resolved path, one that is no struct upstream, one whose
\* upstream file does not exist
\* the directive of Adapter has include_types: a struct of both files, a
\* declaration that is no struct, and a name neither file declares
DefAdapter == [StructDef("Adapter", "casdoor", "adapter.go")
                  EXCEPT !.IncludeTypes = <<"Options", "Kind", "Missing">>]
DefPayment == StructDef("Payment", "casdoor", "payment.go")
DefRole    == StructDef("Role", "casbin", "role.go")
DefKind    == StructDef("Kind", "casdoor", "adapter.go")
DefGhost   == StructDef("Ghost", "casdoor", "ghost.go")

StructDefs == {DefAdapter, DefPayment, DefRole, DefKind, DefGhost}

MaxStructs == 3
MaxRuns    == 2

\* Config.Structs: at most MaxStructs declarations, none twice
StructLists ==
    {l \in UNION {[1..m -> StructDefs] : m \in 1..MaxStructs} :
        \A i, j \in 1..Len(l) : i # j => l[i] # l[j]}

SrcAdapterLists == {<<SrcName>>, <<SrcName, SrcState>>}
TgtAdapterLists == {<<TgtName>>, <<TgtName, TgtFoo>>, <<TgtName, TgtBaz>>}

\* payment.go of the target: holding the declaration, unreadable, or without it
TgtPaymentFiles ==
    { File(TRUE, ("Payment" :> StructDecl(<<TgtState>>))),
      NoFile,
      File(TRUE, ("Order" :> StructDecl(<<TgtName>>))) }

NoInput ==
    [Name |-> "", src |-> <<>>, tgt |-> <<>>, opts |-> ReadmeTransform,
     mopts |-> MergeOptions(TRUE, DefaultDeprecationMessage, FALSE, <<>>)]

DryRunAsGiven(dryRun, showDiff) == dryRun

\* main: --diff implies --dry-run
DryRunFlag(dryRun, showDiff) == IF showDiff /\ ~dryRun THEN TRUE ELSE dryRun

\* FormatSummary: the six counts in the order of the printed lines
FormatSummary(st) ==
    <<st.TotalStructs, st.ChangedStructs, st.NewFields, st.RemovedFields,
      st.ModifiedTags, st.ExcludedFields>>

\* main: the flags --dry-run, --diff, --mark-deprecated and --struct, the
\* configuration, the resolved sources; then Run is entered (a preview run
\* never reaches the code that reads MarkDeprecated: it is entered with one
\* value of the flag)
Init ==
    /\ \E l \in StructLists, dry \in BOOLEAN, showDiff \in BOOLEAN :
       \E mark \in IF DryRunFlag(dry, showDiff) THEN {TRUE} ELSE BOOLEAN,
          filter \in {"", "Payment"} :
          cfg = [Structs |-> l, Transform |-> ReadmeTransform,
                 SourcePaths |-> {"casdoor"}, DryRun |-> DryRunFlag(dry, showDiff),
                 ShowDiff |-> showDiff, MarkDeprecated |-> mark,
                 PruneDeprecated |-> FALSE, StructFilter |-> filter]
    /\ \E sa \in SrcAdapterLists :
          sources = ("casdoor" :>
                        (("adapter.go" :> File(TRUE, ("Adapter" :> StructDecl(sa))
                                                      @@ ("Kind" :> OtherDecl)
                                                      @@ ("Options" :> StructDecl(
                                                              <<SrcName, SrcState>>))))
                         @@ ("payment.go" :> File(TRUE, ("Payment" :>
                                                  StructDecl(<<SrcOwner, SrcState>>))))))
    /\ \E ta \in TgtAdapterLists, tp \in TgtPaymentFiles :
          targets = ("adapter.go" :> File(TRUE, ("Adapter" :> StructDecl(ta))
                                                 @@ ("Kind" :> OtherDecl)
                                                 @@ ("Options" :> StructDecl(<<TgtName>>))))
                    @@ ("payment.go" :> tp)
    /\ pc = "running"
    /\ idx = 1
    /\ runs = 1
    /\ stats = NoStats
    /\ called = <<>>
    /\ warned = <<>>
    /\ ret = "none"
    /\ last = NoCall
    /\ rewritten = <<>>
    /\ processed = <<>>
    /\ summary = NoSummary
    /\ input = NoInput
    /\ transformed = NoTransformResult
    /\ diff = NoDiff
    /\ built = <<>>

\* what the diff of a processed declaration shows: the fields added, the
\* fields removed, the annotations modified, the fields excluded
Counts(name, tr, d) ==
    [Name     |-> name,
     New      |-> Cardinality({n \in 1..Len(d.Lines) :
                                  /\ d.Lines[n].Type = "DiffAdded"
                                  /\ (n = 1 \/ d.Lines[n - 1].Type # "DiffRemoved")}),
     Removed  |-> Cardinality({n \in 1..Len(d.Lines) :
                                  /\ d.Lines[n].Type = "DiffRemoved"
                                  /\ (n = Len(d.Lines) \/ d.Lines[n + 1].Type # "DiffAdded")}),
     Modified |-> tr.ModifiedTags,
     Excluded |-> Len(tr.ExcludedFields)]

\* Run's loop: the declaration does not pass the struct filter
RunSkip ==
    /\ pc = "running"
    /\ idx <= Len(cfg.Structs)
    /\ Filtered(cfg.Structs[idx])
    /\ idx' = idx + 1
    /\ UNCHANGED <<cfg, sources, targets, pc, runs, stats, called, warned, ret, last,
                   rewritten, processed, summary, input, transformed, diff, built>>

\* Run's loop: syncStruct for the declaration, the warning, the statistics
RunSyncStruct ==
    /\ pc = "running"
    /\ idx <= Len(cfg.Structs)
    /\ ~Filtered(cfg.Structs[idx])
    /\ \E writeOk \in BOOLEAN : \E r \in {syncStruct(cfg.Structs[idx], writeOk)} :
          LET def  == cfg.Structs[idx]
              next == Continue(r.err, idx, Len(cfg.Structs))
          IN /\ targets' = r.targets
             /\ stats' = IF r.err = ""
                         THEN [r.stats EXCEPT !.TotalStructs = @ + 1]
                         ELSE r.stats
             /\ called' = Append(called, def.Name)
             /\ warned' = IF r.err = "" THEN warned ELSE Append(warned, def.Name)
             /\ last' = [Name |-> def.Name, Err |-> r.err, Diffed |-> r.diffed,
                         HadChanges |-> r.diff.HasChanges, Wrote |-> r.wrote]
             /\ rewritten' = IF r.wrote
                             THEN Append(rewritten, [Run |-> runs, Name |-> def.Name,
                                                     Fields |-> r.built])
                             ELSE rewritten
             /\ processed' = IF r.err = ""
                             THEN Append(processed, Counts(def.Name, r.transformed, r.diff))
                             ELSE processed
             /\ idx' = next.idx
             /\ ret' = next.ret
             /\ transformed' = r.transformed
             /\ diff' = r.diff
             /\ built' = r.built
    /\ UNCHANGED <<cfg, sources, pc, runs, summary, input>>

\* Run after the loop: the summary, and no error
RunReturn ==
    /\ pc = "running"
    /\ idx > Len(cfg.Structs)
    /\ pc' = "done"
    /\ ret' = IF ret = "none" THEN "nil" ELSE ret
    /\ summary' = IF cfg.DryRun \/ cfg.ShowDiff THEN FormatSummary(stats) ELSE NoSummary
    /\ UNCHANGED <<cfg, sources, targets, idx, runs, stats, called, warned, last,
                   rewritten, processed, input, transformed, diff, built>>

\* main again: the same configuration and flags on the files the last run left
Rerun ==
    /\ pc = "done"
    /\ runs < MaxRuns
    /\ pc' = "running"
    /\ idx' = 1
    /\ runs' = runs + 1
    /\ stats' = NoStats
    /\ called' = <<>>
    /\ warned' = <<>>
    /\ ret' = "none"
    /\ last' = NoCall
    /\ processed' = <<>>
    /\ summary' = NoSummary
    /\ transformed' = NoTransformResult
    /\ diff' = NoDiff
    /\ built' = <<>>
    /\ UNCHANGED <<cfg, sources, targets, rewritten, input>>

Next ==
    \/ RunSkip
    \/ RunSyncStruct
    \/ RunReturn
    \/ Rerun

Spec == Init /\ [][Next]_vars

----------------------------------------------------------------------------
(* ParseFile followed by WriteFile or WriteFileToString on the tree as it    *)
(* was parsed, on every file of the bounded sets                             *)

\* the files to parse: one struct declaration, beside another type or alone,
\* as go/format lays it out or in a layout of the author's own
RoundTripFiles ==
    LET formatted == { File(TRUE, ("Adapter" :> StructDecl(t))) : t \in TgtLists }
                     \cup { File(TRUE, ("Adapter" :> StructDecl(t)) @@ ("Kind" :> OtherDecl)) :
                            t \in TgtLists }
    IN  formatted \cup { HandFormatted(f) : f \in formatted }

InitRoundTrip ==
    /\ \E f \in RoundTripFiles :
          /\ targets = ("adapter.go" :> f)
          /\ input = [Path |-> "adapter.go", Original |-> f, File |-> Tree(NoFile)]
    /\ pc = "start"
    /\ transformed = NoTransformResult /\ diff = NoDiff /\ built = <<>>
    /\ cfg = <<>> /\ sources = <<>>
    /\ idx = 0 /\ runs = 0 /\ stats = NoStats /\ called = <<>> /\ warned = <<>>
    /\ ret = "none" /\ last = NoCall /\ rewritten = <<>>
    /\ processed = <<>> /\ summary = NoSummary

ApplyParseFile ==
    /\ pc = "start"
    /\ ParseFile(targets, input.Path).err = ""
    /\ input' = [input EXCEPT !.File = ParseFile(targets, input.Path).File]
    /\ pc' = "parsed"
    /\ UNCHANGED <<cfg, sources, targets, idx, runs, stats, called, warned, ret, last,
                   rewritten, processed, summary, transformed, diff, built>>

\* Writer.WriteFile: the printed tree written to the path
ApplyWriteFile ==
    /\ pc = "parsed"
    /\ targets' = WriteFile(targets, input.Path, input.File, TRUE).fs
    /\ pc' = "written"
    /\ UNCHANGED <<cfg, sources, input, idx, runs, stats, called, warned, ret, last,
                   rewritten, processed, summary, transformed, diff, built>>

\* Writer.WriteFileToString: the printed tree returned, held in summary
ApplyWriteFileToString ==
    /\ pc = "parsed"
    /\ summary' = Fprint(input.File)
    /\ pc' = "printed"
    /\ UNCHANGED <<cfg, sources, targets, input, idx, runs, stats, called, warned, ret, last,
                   rewritten, processed, transformed, diff, built>>

NextRoundTrip ==
    \/ ApplyParseFile
    \/ ApplyWriteFile
    \/ ApplyWriteFileToString

SpecRoundTrip == InitRoundTrip /\ [][NextRoundTrip]_vars

----------------------------------------------------------------------------
(* Properties of the pipeline *)

\* the pipeline has just applied TransformStruct, ComputeDiff, BuildFieldsFromTransform
Transformed == pc = "transformed"
Diffed      == pc = "diffed"
Built       == pc = "built"

\* the identity key of a field of the built list: its type when embedded, else its name
NodeKey(b) == IF b.Names = <<>> THEN exprToString(b.Type) ELSE b.Names[1]

\* the key:"value" pairs of an annotation
Pairs(tagStr) == Parse(Trim(tagStr, BQ))

\* the annotation holds a pair whose key is to be removed
Hit(f, removeSet) ==
    LET parsed == Pairs(f.Tags)
    IN /\ ~parsed.err
       /\ \E k \in 1..Len(parsed.tags) : parsed.tags[k].Key \in removeSet

RECURSIVE Flatten(_)
Flatten(ss) == IF ss = <<>> THEN <<>> ELSE Head(ss) \o Flatten(Tail(ss))

\* C7: a type is remapped exactly when its rendered text is a key of
\* type_mappings, to the value of that key and no further: pp.PaymentState
\* becomes string, *pp.PaymentState stays, and the field built from a
\* transformed field renders as its NewType.
C7_TypeMappingExactOnce ==
    Transformed \/ Built =>
        \A i \in 1..Len(transformed.Fields) :
            LET f == transformed.Fields[i]
                m == input.opts.TypeMappings
            IN /\ (\E k \in DOMAIN m : k = f.Type) => f.NewType = m[f.Type]
               /\ (\A k \in DOMAIN m : k # f.Type) => f.NewType = f.Type
               /\ f.Type = <<"pp", ".", "PaymentState">> => f.NewType = <<"string">>
               /\ f.Type = <<"*", "pp", ".", "PaymentState">> => f.NewType = f.Type
               /\ Built => exprToString(built[i].Type) = f.NewType

C7_Witness ==
    /\ Built
    /\ input.opts = CascadeTransform
    /\ \E i \in 1..Len(transformed.Fields) :
          /\ transformed.Fields[i].Type = <<"pp", ".", "PaymentState">>
          /\ transformed.Fields[i].NewType = <<"string">>
          /\ built[i].Type = Ident(<<"string">>)
    /\ \E i \in 1..Len(transformed.Fields) :
          /\ transformed.Fields[i].Type = <<"*", "pp", ".", "PaymentState">>
          /\ built[i].Type = TPtrPaymentState

\* C8: stripping removes exactly the pairs whose key is in remove_annotation_keys
\* and keeps the others in order; an annotation without such a key (or one that
\* does not parse) is left as it is; ModifiedTags counts the retained fields
\* that held such a key, once each; no pair left gives the empty annotation.
C8_AnnotationStripping ==
    Transformed =>
        LET removeSet == SetOf(input.opts.RemoveTags)
            Keep(t)   == t.Key \notin removeSet
        IN /\ \A i \in 1..Len(transformed.Fields) :
                 LET f    == transformed.Fields[i]
                     hit  == Hit(f, removeSet)
                     kept == SelectSeq(Pairs(f.Tags).tags, Keep)
                     new  == Pairs(f.NewTags)
                 IN /\ ~hit => f.NewTags = f.Tags
                    /\ hit /\ kept = <<>> => f.NewTags = <<>>
                    /\ hit /\ kept # <<>> =>
                          /\ ~new.err
                          /\ new.tags = kept
                          /\ f.NewTags # f.Tags
           /\ transformed.ModifiedTags =
                 Cardinality({i \in 1..Len(transformed.Fields) :
                                 Hit(transformed.Fields[i], removeSet)})

C8_Witness ==
    /\ pc = "transformed"
    /\ transformed.ModifiedTags = 2
    /\ \E i \in 1..Len(transformed.Fields) :
          /\ Len(Pairs(transformed.Fields[i].Tags).tags) = 3
          /\ Len(Pairs(transformed.Fields[i].NewTags).tags) = 2
    /\ \E i \in 1..Len(transformed.Fields) :
          /\ transformed.Fields[i].Tags # <<>>
          /\ transformed.Fields[i].NewTags = <<>>
    /\ \E i \in 1..Len(transformed.Fields) :
          /\ transformed.Fields[i].Tags # <<>>
          /\ transformed.Fields[i].NewTags = transformed.Fields[i].Tags

\* a comment line that reads as a type reference: after "//" and blanks it
\* starts with "*", or it holds a qualifier dot
LooksLikeTypeRef(c) ==
    /\ Len(c) >= 1
    /\ c[1] = "//"
    /\ \E k \in 2..Len(c) :
          \/ c[k] = "."
          \/ c[k] = "*" /\ \A h \in 2..(k - 1) : IsSpace(c[h])

Neutralized(tf) == \E k \in 1..Len(tf.Comments) : LooksLikeTypeRef(tf.Comments[k])

SrcKeys == {tfieldKey(transformed.Fields[i]) : i \in 1..Len(transformed.Fields)}
TgtKeys == {fieldKey(input.tgt[j]) : j \in 1..Len(input.tgt)}

\* the target field of a key (keys are unique in a field list of the model)
TgtOf(key) == input.tgt[CHOOSE j \in 1..Len(input.tgt) : fieldKey(input.tgt[j]) = key]

\* the lines a transformed upstream field contributes to the diff
SrcLines(sf) ==
    LET new == formatTransformedField(sf)
        old == formatField(TgtOf(tfieldKey(sf)))
    IN IF tfieldKey(sf) \in TgtKeys
       THEN IF old = new
            THEN <<DiffLine("DiffUnchanged", new)>>
            ELSE <<DiffLine("DiffRemoved", old), DiffLine("DiffAdded", new)>>
       ELSE <<DiffLine("DiffAdded", new)>>

\* the lines a target field contributes after the upstream fields
TgtLines(tf) ==
    IF fieldKey(tf) \notin SrcKeys /\ ~Neutralized(tf)
    THEN <<DiffLine("DiffRemoved", formatField(tf))>>
    ELSE <<>>

LineTypes == [i \in 1..Len(diff.Lines) |-> diff.Lines[i].Type]

\* C4: the lines of a diff are the unchanged header "type <Name> struct {",
\* the lines of the transformed upstream fields in upstream order (a changed
\* field gives its removed line and then its added line), the removed lines
\* of the target-only fields in target order, and the unchanged footer "}".
C4_DiffLineOrder ==
    Diffed =>
        diff.Lines =
            <<DiffLine("DiffUnchanged", <<"type ", input.Name, " struct {">>)>>
            \o Flatten([i \in 1..Len(transformed.Fields) |-> SrcLines(transformed.Fields[i])])
            \o Flatten([j \in 1..Len(input.tgt) |-> TgtLines(input.tgt[j])])
            \o <<DiffLine("DiffUnchanged", <<"}">>)>>

\* upstream [A, B, C] against target [B] of another type
C4_Witness ==
    /\ Diffed
    /\ Len(transformed.Fields) = 3
    /\ Len(input.tgt) = 1
    /\ tfieldKey(transformed.Fields[2]) = fieldKey(input.tgt[1])
    /\ transformed.Fields[2].NewType # input.tgt[1].Type
    /\ LineTypes = <<"DiffUnchanged", "DiffAdded", "DiffRemoved", "DiffAdded",
                     "DiffAdded", "DiffUnchanged">>

\* C5: a target field without a match among the transformed upstream fields
\* is, with mark_deprecated, built as a field of the same name and type whose
\* comment is "// Deprecated: removed from server" and which has no
\* annotation when every pair of it is stripped; without mark_deprecated the
\* built list holds no field of its key.
C5_DeprecateNotDelete ==
    Built =>
        LET keys      == {buildKey(transformed.Fields[i]) : i \in 1..Len(transformed.Fields)}
            removeSet == SetOf(input.mopts.RemoveTags)
        IN \A j \in 1..Len(input.tgt) :
              LET ef    == input.tgt[j]
                  pairs == Pairs(ef.Tags).tags
              IN buildKey(ef) \notin keys =>
                    IF input.mopts.MarkDeprecated
                    THEN \E n \in 1..Len(built) :
                            /\ built[n].Names = (IF ef.IsEmbedded THEN <<>> ELSE <<ef.Name>>)
                            /\ exprToString(built[n].Type) = ef.Type
                            /\ Len(built[n].Start) >= 1
                            /\ built[n].Start[1] =
                                  <<"//", " ", "Deprecated:", " ", "removed from server">>
                            /\ built[n].Before = "NewLine"
                            /\ (\A k \in 1..Len(pairs) : pairs[k].Key \in removeSet)
                                  => built[n].Tag = <<>>
                    ELSE \A n \in 1..Len(built) :
                            ~(/\ (built[n].Names = <<>>) = ef.IsEmbedded
                              /\ NodeKey(built[n]) = buildKey(ef))

\* the target holds "Foo string", upstream does not; mark_deprecated, no message
C5_Witness ==
    /\ Built
    /\ input.mopts.MarkDeprecated
    /\ input.mopts.DeprecationMessage = <<>>
    /\ \E j \in 1..Len(input.tgt) : input.tgt[j].Name = <<"Foo">>
    /\ \E n \in 1..Len(built) :
          /\ built[n].Names = <<<<"Foo">>>>
          /\ built[n].Type = TString
          /\ built[n].Tag = <<>>
          /\ built[n].Start = <<DeprecationComment(DefaultDeprecationMessage)>>
    /\ \E n \in 1..Len(built) :
          /\ built[n].Names = <<>>
          /\ built[n].Tag = <<>>
          /\ built[n].Start = <<DeprecationComment(DefaultDeprecationMessage)>>

\* C6: a target-only field with a leading comment that reads as a type
\* reference gives no removed line, and a diff whose upstream fields are all
\* unchanged and whose target-only fields all carry such a comment has no
\* changes.
C6_NeutralizedNotRemoved ==
    Diffed =>
        /\ \A j \in 1..Len(input.tgt) :
              fieldKey(input.tgt[j]) \notin SrcKeys /\ Neutralized(input.tgt[j]) =>
                  \A n \in 1..Len(diff.Lines) :
                      ~(/\ diff.Lines[n].Type = "DiffRemoved"
                        /\ diff.Lines[n].Content = formatField(input.tgt[j]))
        /\ (/\ \A j \in 1..Len(input.tgt) :
                  fieldKey(input.tgt[j]) \in SrcKeys \/ Neutralized(input.tgt[j])
            /\ \A i \in 1..Len(transformed.Fields) :
                  /\ tfieldKey(transformed.Fields[i]) \in TgtKeys
                  /\ formatField(TgtOf(tfieldKey(transformed.Fields[i])))
                        = formatTransformedField(transformed.Fields[i]))
              => ~diff.HasChanges

C6_Witness ==
    /\ Diffed
    /\ ~diff.HasChanges
    /\ Len(diff.Lines) = 3
    /\ \E j \in 1..Len(input.tgt) :
          /\ fieldKey(input.tgt[j]) \notin SrcKeys
          /\ input.tgt[j].Comments = <<DotComment>>

\* the upstream fields that TransformStruct excluded
ExcludedUpstream ==
    {i \in 1..Len(input.src) : fieldKey(input.src[i]) \notin SrcKeys}

\* C1: no field of the built list has the identity key of an upstream field
\* that TransformStruct excluded, neither a retained field nor a deprecated stub.
C1_ExclusionTerminal ==
    Built =>
        \A i \in ExcludedUpstream : \A n \in 1..Len(built) :
            ~(/\ (built[n].Names = <<>>) = input.src[i].IsEmbedded
              /\ NodeKey(built[n]) = buildKey(input.src[i]))

\* C3: an embedded upstream field of an excluded type is recorded in
\* ExcludedFields and no line of the diff renders it.
C3_EmbeddedExclusionNotInDiff ==
    Diffed =>
        \A i \in 1..Len(input.src) :
            input.src[i].IsEmbedded /\ input.src[i].Type \in SetOf(input.opts.ExcludeEmbedded) =>
                /\ input.src[i].Type \in SetOf(transformed.ExcludedFields)
                /\ \A n \in 1..Len(diff.Lines) :
                      ~HasPrefix(diff.Lines[n].Content, <<"\t">> \o input.src[i].Type)

----------------------------------------------------------------------------
(* Properties of Syncer.Run *)

Names(defs) == [i \in 1..Len(defs) |-> defs[i].Name]

\* the declarations among the first n of Config.Structs that pass the struct filter
Passing(n) == Names(SelectSeq(SubSeq(cfg.Structs, 1, n), LAMBDA def : ~Filtered(def)))

DefOf(name) == CHOOSE def \in StructDefs : def.Name = name

\* C2: when a run of the tool has rewritten the target of a declaration, a
\* later run on the same upstream and the files the earlier run left computes
\* a diff without changes for that declaration.
C2_SecondRunNoChanges ==
    (/\ last.Diffed
     /\ \E k \in 1..Len(rewritten) :
           rewritten[k].Name = last.Name /\ rewritten[k].Run < runs)
        => ~last.HadChanges

\* C9: a syncStruct call of a preview run, or one whose diff has no changes,
\* leaves every target file as it was.
C9_WriteOnlyWhenApplying ==
    [][(/\ Len(called') = Len(called) + 1
        /\ cfg.DryRun \/ ~diff'.HasChanges)
           => targets' = targets]_vars

\* a preview run whose diff has changes for the declaration
C9_Witness ==
    /\ cfg.DryRun
    /\ last.Diffed
    /\ last.HadChanges
    /\ ~last.Wrote
    /\ stats.ChangedStructs >= 1
    /\ rewritten = <<>>

\* C10: whatever calls of syncStruct failed, Run calls syncStruct for every
\* declaration that passes the struct filter, in the order of Config.Structs,
\* every file written in this run still holds what was written, and Run
\* returns nil.
C10_PartialFailureIsolation ==
    /\ pc = "running" => called = Passing(idx - 1) /\ ret = "none"
    /\ pc = "done" => called = Passing(Len(cfg.Structs)) /\ ret = "nil"
    /\ pc \in {"running", "done"} =>
          /\ \A k \in 1..Len(warned) : \E n \in 1..Len(called) : called[n] = warned[k]
          /\ stats.TotalStructs = Len(called) - Len(warned)
          /\ \A k \in 1..Len(rewritten) :
                rewritten[k].Run = runs =>
                    targets[DefOf(rewritten[k].Name).File].Decls[rewritten[k].Name].List
                        = rewritten[k].Fields

\* three declarations, the second fails, the first and the third are written
C10_Witness ==
    /\ pc = "done"
    /\ runs = 1
    /\ Len(called) = 3
    /\ warned = <<called[2]>>
    /\ Len(rewritten) = 2
    /\ rewritten[1].Name = called[1]
    /\ rewritten[2].Name = called[3]
    /\ stats.TotalStructs = 2

RECURSIVE SumSeq(_)
SumSeq(ns) == IF ns = <<>> THEN 0 ELSE Head(ns) + SumSeq(Tail(ns))

\* C11: when Run has returned, NewFields, RemovedFields, ModifiedTags and
\* ExcludedFields of the statistics are the sums, over the declarations
\* processed in this run, of the fields added, the fields removed, the
\* annotations modified and the fields excluded.
C11_SummaryAggregates ==
    pc = "done" =>
        /\ stats.NewFields =
              SumSeq([i \in 1..Len(processed) |-> processed[i].New])
        /\ stats.RemovedFields =
              SumSeq([i \in 1..Len(processed) |-> processed[i].Removed])
        /\ stats.ModifiedTags =
              SumSeq([i \in 1..Len(processed) |-> processed[i].Modified])
        /\ stats.ExcludedFields =
              SumSeq([i \in 1..Len(processed) |-> processed[i].Excluded])

\* the annotation holds the pair key:"-"
SetsToSkip(tagStr, key) == Contains(tagStr, <<key, ":", "\"", "-", "\"">>)

\* the upstream field is one that the transformation is to remove
ToExclude(f) ==
    \/ f.IsEmbedded /\ \E k \in 1..Len(input.opts.ExcludeEmbedded) :
                           input.opts.ExcludeEmbedded[k] = f.Type
    \/ SetsToSkip(f.Tags, "xorm") /\ SetsToSkip(f.Tags, "json")

ToKeep(f) == ~ToExclude(f)

\* the ParsedField inside a TransformedField
ParsedOf(tf) ==
    ParsedField(tf.Name, tf.Type, tf.TypeExpr, tf.Tags, tf.Comments, tf.IsEmbedded)

\* C12: the Fields of TransformStruct are the upstream fields in upstream
\* order without those that are embedded with a type of exclude_embedded_types
\* or whose annotation sets xorm and json to "-"; ExcludedFields holds each
\* removed field once, in order; no field of Fields has ShouldExclude.
C12_TransformOrderPreservingFilter ==
    Transformed =>
        LET kept    == SelectSeq(input.src, ToKeep)
            removed == SelectSeq(input.src, ToExclude)
        IN /\ Len(transformed.Fields) = Len(kept)
           /\ \A i \in 1..Len(kept) :
                 /\ ParsedOf(transformed.Fields[i]) = kept[i]
                 /\ ~transformed.Fields[i].ShouldExclude
           /\ transformed.ExcludedFields =
                 [i \in 1..Len(removed) |->
                     IF removed[i].IsEmbedded THEN removed[i].Type ELSE removed[i].Name]
           /\ Len(transformed.Fields) + Len(transformed.ExcludedFields) = Len(input.src)

\* three upstream fields: a kept one, an excluded embedded one, one excluded
\* by its annotation, and a kept one after an excluded one
C12_Witness ==
    /\ Transformed
    /\ Len(input.src) = 3
    /\ ToExclude(input.src[1])
    /\ ToKeep(input.src[2])
    /\ ToExclude(input.src[3])
    /\ input.src[1].IsEmbedded # input.src[3].IsEmbedded
    /\ Len(transformed.Fields) = 1
    /\ Len(transformed.ExcludedFields) = 2


\* C13: a file parsed by ParseFile and written back unmodified, by WriteFile or by
\* WriteFileToString, has the bytes of the original file
C13_WriterRoundTrip ==
    /\ pc = "written" => targets[input.Path] = input.Original
    /\ pc = "printed" => summary = input.Original


\* the class of a transformed upstream field against the target: "unchanged",
\* "changed" (key in the target, renderings differ) or "added" (key absent)
ClassOf(sf) ==
    IF tfieldKey(sf) \in TgtKeys
    THEN IF formatField(TgtOf(tfieldKey(sf))) = formatTransformedField(sf)
         THEN "unchanged" ELSE "changed"
    ELSE "added"

\* the number of diff lines before those of the i-th transformed upstream field
LinesBefore(i) ==
    1 + SumSeq([j \in 1..(i - 1) |->
                  IF ClassOf(transformed.Fields[j]) = "changed" THEN 2 ELSE 1])

\* C14: every transformed upstream field contributes to the diff by its class:
\* one unchanged line when its key is in the target and the old and new
\* renderings are equal; a removed line (old) immediately followed by an added
\* line (new), with HasChanges set, when they differ; one added line, with
\* HasChanges set, when the key is absent from the target.
C14_PerFieldClassification ==
    Diffed =>
        \A i \in 1..Len(transformed.Fields) :
            LET sf  == transformed.Fields[i]
                at  == LinesBefore(i)
                new == formatTransformedField(sf)
                cls == ClassOf(sf)
            IN  /\ at + (IF cls = "changed" THEN 2 ELSE 1) < Len(diff.Lines)
                /\ cls = "unchanged" => diff.Lines[at + 1] = DiffLine("DiffUnchanged", new)
                /\ cls = "changed" =>
                       /\ diff.Lines[at + 1] =
                              DiffLine("DiffRemoved", formatField(TgtOf(tfieldKey(sf))))
                       /\ diff.Lines[at + 2] = DiffLine("DiffAdded", new)
                       /\ diff.HasChanges
                /\ cls = "added" =>
                       /\ diff.Lines[at + 1] = DiffLine("DiffAdded", new)
                       /\ diff.HasChanges

\* a diff of three upstream fields where a field absent from the target comes
\* before and after a field whose rendering changed
C14_Witness ==
    /\ Diffed
    /\ Len(transformed.Fields) = 3
    /\ ClassOf(transformed.Fields[1]) = "added"
    /\ ClassOf(transformed.Fields[2]) = "changed"
    /\ ClassOf(transformed.Fields[3]) = "added"
    /\ diff.Lines[3].Type = "DiffRemoved" /\ diff.Lines[4].Type = "DiffAdded"
    /\ diff.HasChanges


\* whether a target field has no match among the transformed upstream fields
TargetOnly(ef) ==
    buildKey(ef) \notin {buildKey(transformed.Fields[i]) : i \in 1..Len(transformed.Fields)}

\* whether a built node is the node of a field of this name, or, for an
\* embedded field, of this type
NodeOf(node, isEmbedded, name, type) ==
    IF isEmbedded THEN node.Names = <<>> /\ exprToString(node.Type) = type
    ELSE node.Names = <<name>>

\* C15: the built field list is the transformed upstream fields in upstream
\* order, followed (with mark_deprecated) by the deprecated stubs of the
\* target fields without a match upstream, in target order, and by nothing
\* else; a target field never keeps its place among the upstream fields.
C15_BuildOutputOrder ==
    Built =>
        LET up    == transformed.Fields
            only  == SelectSeq(input.tgt, TargetOnly)
            stubs == IF input.mopts.MarkDeprecated THEN only ELSE <<>>
        IN  /\ Len(built) = Len(up) + Len(stubs)
            /\ \A i \in 1..Len(up) :
                   /\ NodeOf(built[i], up[i].IsEmbedded, up[i].Name,
                             IF up[i].NewType # <<>> THEN up[i].NewType ELSE up[i].Type)
                   /\ built[i].Before = "None"
            /\ \A j \in 1..Len(stubs) :
                   /\ NodeOf(built[Len(up) + j], stubs[j].IsEmbedded, stubs[j].Name,
                             stubs[j].Type)
                   /\ built[Len(up) + j].Before = "NewLine"

\* the first target field has no match upstream, the second has: the built
\* list is the two upstream fields and then the stub of the first target field
C15_Witness ==
    /\ Built
    /\ input.mopts.MarkDeprecated
    /\ Len(transformed.Fields) = 2
    /\ Len(input.tgt) = 2
    /\ TargetOnly(input.tgt[1])
    /\ ~TargetOnly(input.tgt[2])
    /\ buildKey(input.tgt[2]) = buildKey(transformed.Fields[2])
    /\ Len(built) = 3
    /\ built[3].Names = <<input.tgt[1].Name>>


\* C16: the deprecated stub of a target field without a match upstream has
\* as comments the line "// Deprecated: <message>" ("removed from server" when
\* no message is configured), on a line of its own, followed by the comment
\* lines the target field had.
C16_StubKeepsPriorComments ==
    (Built /\ input.mopts.MarkDeprecated) =>
        LET only == SelectSeq(input.tgt, TargetOnly)
            n    == Len(transformed.Fields)
            msg  == IF input.mopts.DeprecationMessage = <<>>
                    THEN <<"removed from server">>
                    ELSE input.mopts.DeprecationMessage
        IN \A j \in 1..Len(only) :
              /\ n + j <= Len(built)
              /\ built[n + j].Before = "NewLine"
              /\ built[n + j].Start =
                     <<(<<"//", " ", "Deprecated:", " ">> \o msg)>> \o only[j].Comments


\* whether a pair of an annotation is kept under the configured remove keys
KeptPair(t) == t.Key \notin SetOf(input.mopts.RemoveTags)

\* C17: the annotation of the deprecated stub of a target field holds the
\* pairs of the target field's annotation whose key is not one of the keys to
\* remove, all of them, unchanged and in order (a pair whose key only contains
\* a key to remove, as myxorm contains xorm, is kept): the pairs transformTags
\* keeps.
C17_StubAnnotationStripsExactKeys ==
    (Built /\ input.mopts.MarkDeprecated) =>
        LET only == SelectSeq(input.tgt, TargetOnly)
            n    == Len(transformed.Fields)
        IN \A j \in 1..Len(only) :
              LET before == Pairs(only[j].Tags)
                  after  == Pairs(built[n + j].Tag)
                  same   == transformTags(only[j].Tags, SetOf(input.mopts.RemoveTags))
              IN ~before.err =>
                    /\ ~after.err
                    /\ after.tags = SelectSeq(before.tags, KeptPair)
                    /\ after.tags = Pairs(same.tags).tags


\* C18: the type expression of the field built for a transformed upstream
\* field to which no type mapping applies is structurally equal to the
\* upstream type expression: the same node kind with the same children, the
\* members of an inline struct or interface type included.
C18_BuildFieldClonesType ==
    Built =>
        \A i \in 1..Len(transformed.Fields) :
            LET tf == transformed.Fields[i]
            IN (tf.NewType = <<>> \/ tf.NewType = tf.Type) =>
                  /\ i <= Len(built)
                  /\ built[i].Type = tf.TypeExpr


C21_HasChangesIffChangeLine ==
    Diffed =>
        LET changed == \E i \in 1..Len(diff.Lines) :
                          diff.Lines[i].Type \in {"DiffAdded", "DiffRemoved"}
            text    == FormatDiff(diff, <<"adapter.go">>)
        IN  /\ diff.HasChanges <=> changed
            /\ ~diff.HasChanges =>
                   /\ \A i \in 1..Len(diff.Lines) : diff.Lines[i].Type = "DiffUnchanged"
                   /\ text = <<>>
            /\ diff.HasChanges => text # <<>>

\* a diff without changes: an unchanged field, and a target field without a
\* match upstream that is commented out and so gives no removed line
C21_Witness ==
    /\ Diffed
    /\ ~diff.HasChanges
    /\ Len(diff.Lines) = 3
    /\ Len(input.tgt) = 2
    /\ \E j \in 1..2 : TargetOnly(input.tgt[j]) /\ isFieldCommented(input.tgt[j])
    /\ FormatDiff(diff, <<"adapter.go">>) = <<>>


\* C22: when the diff has changes (the condition under which an apply run
\* builds and writes), every target field that BuildFieldsFromTransform finds
\* unmatched, and so drops or rewrites as a deprecated stub, has its removed
\* line in the diff ComputeDiff gave for the same inputs.
C22_DiffPreviewsEveryRemoval ==
    (Built /\ diff.HasChanges) =>
        \A j \in 1..Len(input.tgt) :
            TargetOnly(input.tgt[j]) =>
                \E i \in 1..Len(diff.Lines) :
                    diff.Lines[i] = DiffLine("DiffRemoved", formatField(input.tgt[j]))


\* whether ComputeDiff finds an upstream field for a target field
DiffMatched(tf) ==
    fieldKey(tf) \in {tfieldKey(transformed.Fields[i]) : i \in 1..Len(transformed.Fields)}

\* C23: a target field has a match among the transformed upstream fields for
\* ComputeDiff exactly when it has one for BuildFieldsFromTransform, a named
\* field whose name is the type of an embedded field of the other side
\* included; so with mark_deprecated every target field the diff reports as
\* removed has its deprecated stub in the built list.
C23_SameIdentityRelation ==
    Built =>
        \A j \in 1..Len(input.tgt) :
            LET tf == input.tgt[j]
            IN  /\ DiffMatched(tf) <=> ~TargetOnly(tf)
                /\ (/\ input.mopts.MarkDeprecated
                    /\ ~DiffMatched(tf)
                    /\ \E i \in 1..Len(diff.Lines) :
                          diff.Lines[i] = DiffLine("DiffRemoved", formatField(tf)))
                      => \E n \in 1..Len(built) :
                            /\ built[n].Before = "NewLine"
                            /\ NodeOf(built[n], tf.IsEmbedded, tf.Name, tf.Type)


\* C24: when Run has returned, whatever calls of syncStruct failed, the count
\* of changed declarations is at most the count of processed declarations.
C24_ChangedAtMostTotal ==
    pc = "done" => stats.ChangedStructs <= stats.TotalStructs


\* the names of include_types that are struct declarations of the source file
\* and of the target file of a directive
IncludedInBoth(def) ==
    {def.IncludeTypes[i] : i \in 1..Len(def.IncludeTypes)}
        \cap {n \in DOMAIN sources[def.Source][def.File].Decls :
                 sources[def.Source][def.File].Decls[n].IsStruct}
        \cap {n \in DOMAIN targets[def.File].Decls : targets[def.File].Decls[n].IsStruct}

\* C25: a syncStruct call of an apply run that returns without error for a
\* directive with include_types leaves every included declaration that the
\* source file and the target file both hold with the build of its transformed
\* upstream fields as its field list, whether or not the diff of the
\* directive's own declaration had changes.
C25_IncludedTypesSynced ==
    [][(/\ Len(called') = Len(called) + 1
        /\ last'.Err = ""
        /\ ~cfg.DryRun
        /\ cfg.Structs[idx].IncludeTypes # <<>>)
           => \A n \in IncludedInBoth(cfg.Structs[idx]) :
                 LET def == cfg.Structs[idx]
                 IN targets'[def.File].Decls[n].List =
                       BuildFieldsFromTransform(
                           TransformStruct(
                               ExtractFields(sources[def.Source][def.File].Decls[n].List),
                               cfg.Transform),
                           ExtractFields(targets[def.File].Decls[n].List),
                           mergeOpts)]_vars


\* whether the target holds a field of the key of a transformed upstream field
DiffKnown(sf) == tfieldKey(sf) \in TgtKeys

\* the type expression of a transformed upstream field after type mapping
MappedTypeExpr(sf) ==
    IF sf.NewType # <<>> /\ sf.NewType # sf.Type THEN Ident(sf.NewType) ELSE sf.TypeExpr

\* C26: for every transformed upstream field whose key is in the target and
\* whose type expression after type mapping differs structurally from the
\* type expression of the target field, the diff holds the removed line of the
\* target field immediately followed by the added line of the upstream
\* field, and HasChanges is set.
C26_TypeChangeReported ==
    Diffed =>
        \A i \in 1..Len(transformed.Fields) :
            LET sf == transformed.Fields[i]
            IN (DiffKnown(sf) /\ MappedTypeExpr(sf) # TgtOf(tfieldKey(sf)).TypeExpr) =>
                  /\ diff.HasChanges
                  /\ \E n \in 1..(Len(diff.Lines) - 1) :
                        /\ diff.Lines[n] =
                              DiffLine("DiffRemoved", formatField(TgtOf(tfieldKey(sf))))
                        /\ diff.Lines[n + 1] =
                              DiffLine("DiffAdded", formatTransformedField(sf))

====
